---- MODULE Spec2Model ----
(***************************************************************************)
(* Model of caldav_mcp: the CalDAVMCPServer tool operations                *)
(* (src/src/caldav_mcp/mcp_server.py) over a calendar service.             *)
(*                                                                         *)
(* The calendar service is the listing of the principal's calendars, each  *)
(* with its events in listing order.  It stores every event handed to      *)
(* add_event, last in the calendar, whatever its uid; search(event_id)     *)
(* lists the events of that uid in listing order; any call to it may       *)
(* raise, and a call that raises has no effect on the service.             *)
(*                                                                         *)
(* A tool call is one step: the handler runs to its return (pc "returned", *)
(* with the call, its envelope and the service calls it issued recorded),  *)
(* then Respond hands the envelope over and the next call is accepted.     *)
(*                                                                         *)
(* Strings whose content matters (summaries, descriptions, queries) are    *)
(* sequences of one-character strings; error messages are sequences of     *)
(* their parts.                                                            *)
(***************************************************************************)
EXTENDS Integers, Sequences, FiniteSets, TLC

VARIABLES
    environ,     \* os.environ: the settings that are set, by name
    session,     \* self.url, self.username, self.password, self._client
    principal,   \* truthiness of self._principal
    calendars,   \* the service: what principal.calendars() lists
    pc,          \* "idle" or "returned" (a tool call has produced its envelope);
                 \* "new" before the server is constructed, "failed" if
                 \* its construction raised
    op,          \* the tool call that produced result: its name and arguments
    result,      \* the envelope the call returned, or [raise |-> e] if it raised
    calls,       \* the service calls the tool call issued, in order
    deleted      \* history: <<calendar_id, uid>> deleted and not created since

vars == <<environ, session, principal, calendars, pc, op, result, calls, deleted>>

----------------------------------------------------------------------------
(* Bounds *)

MaxEvents == 2          \* events held by the service, all calendars together
MaxSearchEvents == 3    \* events of the calendar in the search specification
MaxListingEvents == 1   \* events held by the service in the listing specification

----------------------------------------------------------------------------
(* Values *)

None == 0

T10 == "20250101T100000+0000"
T12 == "20250101T120000+0000"

CalendarIds == {"c1", "c2"}
EventIds == {"e1", "e2"}
Queries == {<<>>, <<"a">>, <<"B">>, <<"a", "b">>}
Limits == {-2, -1, 0, 1, 2, 3}
TimeStrings == {T10, T12, "invalid-date", "2025-01-01"}

RequiredFields == <<"uid", "summary", "start", "end">>

Range(s) == {s[i] : i \in DOMAIN s}

Restrict(f, K) == [k \in K |-> f[k]]

FullData(u) == [uid |-> u, summary |-> <<"A", "b">>, start |-> T10, end |-> T12]

\* the event_data dictionaries the callers send: every combination of absent
\* required keys, and complete ones for each uid
EventDatas ==
    {Restrict(FullData("e1"), K) : K \in SUBSET Range(RequiredFields)}
    \cup {FullData(u) : u \in EventIds}

Calendar(id, name, events) == [id |-> id, name |-> name, events |-> events]

\* an upstream event object: its VEVENT component, a property lookup
Event(ical) == [icalendar_component |-> ical]

VEvent(u, s, d) ==
    [UID |-> u, SUMMARY |-> s, DTSTART |-> T10, DTEND |-> T12,
     LOCATION |-> <<>>, DESCRIPTION |-> d]

----------------------------------------------------------------------------
(* Envelopes, exceptions and the trace of service calls *)

NoResult == [none |-> TRUE]
NoOp == [name |-> "none"]

NotConnected == [error |-> <<"Not connected to CalDAV server">>]
CalendarNotFound(calendar_id) ==
    [error |-> <<"Calendar with ID ", calendar_id, " not found">>]
EventNotFound(event_id, calendar_id) ==
    [error |-> <<"Event with ID ", event_id, " not found in calendar ", calendar_id>>]

UpstreamError == [type |-> "Exception", msg |-> <<"upstream failure">>]
ValueError(msg) == [type |-> "ValueError", msg |-> msg]

Call(name, cal, ok) == [call |-> name, cal |-> cal, ok |-> ok]

\* S = [cals, calls]: the service and the calls issued so far in this tool call
Fails(S, fail) == Len(S.calls) + 1 = fail
Log(S, name, cal, ok) == [S EXCEPT !.calls = Append(@, Call(name, cal, ok))]
\* a call recorded with what was handed to it
LogArg(S, name, cal, ok, arg) ==
    [S EXCEPT !.calls = Append(@, [call |-> name, cal |-> cal, ok |-> ok, arg |-> arg])]
Return(S, env) == [ret |-> env, cals |-> S.cals, calls |-> S.calls]
Raise(S, e) == [ret |-> [raise |-> e], cals |-> S.cals, calls |-> S.calls]
Raised(o) == "raise" \in DOMAIN o.ret

----------------------------------------------------------------------------
(* Configuration and construction *)

\* an optional value is a sequence of at most one element: NoValue is None
NoValue == <<>>
Some(v) == <<v>>

FullEnv ==
    [MCP_CALDAV_URI |-> "https://example.com/caldav",
     MCP_CALDAV_USERNAME |-> "testuser",
     MCP_CALDAV_PASSWORD |-> "testpass"]

\* every combination of set and unset settings
Environments == {Restrict(FullEnv, K) : K \in SUBSET DOMAIN FullEnv}

environ_get(e, k) == IF k \in DOMAIN e THEN Some(e[k]) ELSE NoValue

\* the object before __init__ has assigned its attributes
NoSession ==
    [url |-> NoValue, username |-> NoValue, password |-> NoValue,
     client |-> NoValue]

EnvironmentConfigurationProvider(e) ==
    [NoSession EXCEPT !.url = environ_get(e, "MCP_CALDAV_URI"),
                      !.username = environ_get(e, "MCP_CALDAV_USERNAME"),
                      !.password = environ_get(e, "MCP_CALDAV_PASSWORD")]

DAVClient(url, username, password) ==
    [url |-> url, username |-> username, password |-> password]

\* _connect up to the principal() request: the client is built from the
\* attributes whatever they hold
connect(s) ==
    [s EXCEPT !.client = Some(DAVClient(s.url, s.username, s.password))]

\* the session of a server constructed with every setting set
Connected == connect(EnvironmentConfigurationProvider(FullEnv))

----------------------------------------------------------------------------
(* Calendar Session *)

\* get_calendar_by_id without the return inside the loop: the last calendar
\* of the listing that has the id
get_calendar_by_id_overwritten(listing, calendar_id) ==
    IF \E i \in DOMAIN listing : listing[i].id = calendar_id
    THEN CHOOSE i \in DOMAIN listing :
            /\ listing[i].id = calendar_id
            /\ \A j \in DOMAIN listing : listing[j].id = calendar_id => j <= i
    ELSE None

\* get_calendar_by_id with the loop variable returned after the loop: the last
\* calendar of the listing when none matches
get_calendar_by_id_last(listing, calendar_id) ==
    IF \E i \in DOMAIN listing : listing[i].id = calendar_id
    THEN CHOOSE i \in DOMAIN listing :
            /\ listing[i].id = calendar_id
            /\ \A j \in 1..(i - 1) : listing[j].id # calendar_id
    ELSE Len(listing)

\* index in the listing of the first calendar whose id equals calendar_id
get_calendar_by_id(listing, calendar_id) ==
    IF \E i \in DOMAIN listing : listing[i].id = calendar_id
    THEN CHOOSE i \in DOMAIN listing :
            /\ listing[i].id = calendar_id
            /\ \A j \in 1..(i - 1) : listing[j].id # calendar_id
    ELSE None

get_calendars_try(S, fail) ==
    IF Fails(S, fail) THEN Raise(Log(S, "calendars", 0, FALSE), UpstreamError)
    ELSE LET S1 == Log(S, "calendars", 0, TRUE)
         IN  Return(S1, [calendars |->
                    [i \in DOMAIN S1.cals |->
                        [name |-> S1.cals[i].name, id |-> S1.cals[i].id]]])

get_calendars_except(e) == [error |-> e.msg]

get_calendars(S, fail) ==
    IF ~principal THEN Return(S, NotConnected)
    ELSE LET o == get_calendars_try(S, fail)
         IN  IF Raised(o) THEN [o EXCEPT !.ret = get_calendars_except(o.ret.raise)]
             ELSE o

----------------------------------------------------------------------------
(* Event Operations *)

\* get_events returning what get_event_data extracts from each event
get_events_try_data(S, calendar_id, fail) ==
    IF Fails(S, fail) THEN Raise(Log(S, "calendars", 0, FALSE), UpstreamError)
    ELSE LET S1 == Log(S, "calendars", 0, TRUE)
             calendar == get_calendar_by_id(S1.cals, calendar_id)
         IN  IF calendar = None THEN Return(S1, CalendarNotFound(calendar_id))
             ELSE IF Fails(S1, fail)
             THEN Raise(Log(S1, "events", calendar, FALSE), UpstreamError)
             ELSE Return(Log(S1, "events", calendar, TRUE),
                         [events |-> [i \in DOMAIN S1.cals[calendar].events |->
                             [uid |-> S1.cals[calendar].events[i].icalendar_component.UID]]])

get_events_try(S, calendar_id, fail) ==
    IF Fails(S, fail) THEN Raise(Log(S, "calendars", 0, FALSE), UpstreamError)
    ELSE LET S1 == Log(S, "calendars", 0, TRUE)
             calendar == get_calendar_by_id(S1.cals, calendar_id)
         IN  IF calendar = None THEN Return(S1, CalendarNotFound(calendar_id))
             ELSE IF Fails(S1, fail)
             THEN Raise(Log(S1, "events", calendar, FALSE), UpstreamError)
             ELSE Return(Log(S1, "events", calendar, TRUE),
                         [events |-> S1.cals[calendar].events])

get_events_except(e) == [error |-> e.msg]

get_events(S, calendar_id, fail) ==
    IF ~principal THEN Return(S, NotConnected)
    ELSE LET o == get_events_try(S, calendar_id, fail)
         IN  IF Raised(o) THEN [o EXCEPT !.ret = get_events_except(o.ret.raise)]
             ELSE o

\* calendar.search(event_id=...): the positions, in listing order, of the
\* events whose UID equals event_id
RECURSIVE search_from(_, _, _)
search_from(events, event_id, i) ==
    IF i > Len(events) THEN <<>>
    ELSE LET ical == events[i].icalendar_component
         IN  (IF "UID" \in DOMAIN ical /\ ical.UID = event_id THEN <<i>> ELSE <<>>)
             \o search_from(events, event_id, i + 1)

\* search that ignores event_id: every event that has a UID
search_all(events, event_id) ==
    SelectSeq([i \in DOMAIN events |-> i],
              LAMBDA i : "UID" \in DOMAIN events[i].icalendar_component)

search(events, event_id) == search_from(events, event_id, 1)

\* get_event_by_id that takes the event out of the calendar as it returns it
get_event_by_id_try_taking(S, calendar_id, event_id, fail) ==
    IF Fails(S, fail) THEN Raise(Log(S, "calendars", 0, FALSE), UpstreamError)
    ELSE LET S1 == Log(S, "calendars", 0, TRUE)
             calendar == get_calendar_by_id(S1.cals, calendar_id)
         IN  IF calendar = None THEN Return(S1, CalendarNotFound(calendar_id))
             ELSE IF Fails(S1, fail)
             THEN Raise(Log(S1, "search", calendar, FALSE), UpstreamError)
             ELSE LET S2 == Log(S1, "search", calendar, TRUE)
                      events == search(S2.cals[calendar].events, event_id)
                  IN  IF events = <<>>
                      THEN Return(S2, EventNotFound(event_id, calendar_id))
                      ELSE Return([S2 EXCEPT !.cals =
                                      [@ EXCEPT ![calendar].events =
                                          SubSeq(@, 1, events[1] - 1)
                                          \o SubSeq(@, events[1] + 1, Len(@))]],
                                  [event |-> S2.cals[calendar].events[events[1]]])

get_event_by_id_try(S, calendar_id, event_id, fail) ==
    IF Fails(S, fail) THEN Raise(Log(S, "calendars", 0, FALSE), UpstreamError)
    ELSE LET S1 == Log(S, "calendars", 0, TRUE)
             calendar == get_calendar_by_id(S1.cals, calendar_id)
         IN  IF calendar = None THEN Return(S1, CalendarNotFound(calendar_id))
             ELSE IF Fails(S1, fail)
             THEN Raise(Log(S1, "search", calendar, FALSE), UpstreamError)
             ELSE LET S2 == Log(S1, "search", calendar, TRUE)
                      events == search(S2.cals[calendar].events, event_id)
                  IN  IF events = <<>>
                      THEN Return(S2, EventNotFound(event_id, calendar_id))
                      ELSE Return(S2, [event |-> S2.cals[calendar].events[events[1]]])

get_event_by_id_except(e) == [error |-> <<"Error retrieving event: ">> \o e.msg]

get_event_by_id(S, calendar_id, event_id, fail) ==
    IF ~principal THEN Return(S, NotConnected)
    ELSE LET o == get_event_by_id_try(S, calendar_id, event_id, fail)
         IN  IF Raised(o) THEN [o EXCEPT !.ret = get_event_by_id_except(o.ret.raise)]
             ELSE o

\* the instant a wire-format timestamp denotes (hours of 2025-01-01, UTC)
TimeOf(s) == CASE s = T10 -> 10 [] s = T12 -> 12 [] OTHER -> None

\* datetime.strptime(s, "%Y%m%dT%H%M%S%z")
strptime(s) ==
    IF TimeOf(s) # None THEN [dt |-> TimeOf(s)]
    ELSE [raise |-> ValueError(<<"time data ", s, " does not match format">>)]

\* calendar.date_search(start, end): the events that overlap [start, end)
RECURSIVE date_search_from(_, _, _, _)
date_search_from(events, start, end, i) ==
    IF i > Len(events) THEN <<>>
    ELSE LET ical == events[i].icalendar_component
             hit == /\ {"DTSTART", "DTEND"} \subseteq DOMAIN ical
                    /\ TimeOf(ical.DTSTART) < end
                    /\ TimeOf(ical.DTEND) > start
         IN  (IF hit THEN <<events[i]>> ELSE <<>>)
             \o date_search_from(events, start, end, i + 1)

date_search(events, start, end) == date_search_from(events, start, end, 1)

get_events_in_range_try(S, calendar_id, start_time, end_time, fail) ==
    IF Fails(S, fail) THEN Raise(Log(S, "calendars", 0, FALSE), UpstreamError)
    ELSE LET S1 == Log(S, "calendars", 0, TRUE)
             calendar == get_calendar_by_id(S1.cals, calendar_id)
             start_dt == strptime(start_time)
             end_dt == strptime(end_time)
         IN  IF calendar = None THEN Return(S1, CalendarNotFound(calendar_id))
             ELSE IF "raise" \in DOMAIN start_dt THEN Raise(S1, start_dt.raise)
             ELSE IF "raise" \in DOMAIN end_dt THEN Raise(S1, end_dt.raise)
             ELSE IF Fails(S1, fail)
             THEN Raise(LogArg(S1, "date_search", calendar, FALSE,
                               [start |-> start_dt.dt, end |-> end_dt.dt]),
                        UpstreamError)
             ELSE LET S2 == LogArg(S1, "date_search", calendar, TRUE,
                                   [start |-> start_dt.dt, end |-> end_dt.dt])
                      events == date_search(S2.cals[calendar].events,
                                            start_dt.dt, end_dt.dt)
                  IN  Return(S2, [events |-> events,
                                  count |-> Len(events),
                                  start_time |-> start_time,
                                  end_time |-> end_time,
                                  calendar_id |-> calendar_id])

\* the handler without its ValueError clause
get_events_in_range_except_generic(e) ==
    [error |-> <<"Error getting events in range: ">> \o e.msg]

get_events_in_range_except(e) ==
    IF e.type = "ValueError" THEN [error |-> e.msg]
    ELSE [error |-> <<"Error getting events in range: ">> \o e.msg]

get_events_in_range(S, calendar_id, start_time, end_time, fail) ==
    IF ~principal THEN Return(S, NotConnected)
    ELSE LET o == get_events_in_range_try(S, calendar_id, start_time, end_time, fail)
         IN  IF Raised(o)
             THEN [o EXCEPT !.ret = get_events_in_range_except(o.ret.raise)]
             ELSE o

----------------------------------------------------------------------------
(* Free-text search *)

\* str.lower() on the alphabet of the model
LowerChar(c) == CASE c = "A" -> "a" [] c = "B" -> "b" [] OTHER -> c
lower(s) == [i \in DOMAIN s |-> LowerChar(s[i])]

\* Python's  q in s  on strings
in_str(q, s) ==
    \E i \in 0..(Len(s) - Len(q)) : SubSeq(s, i + 1, i + Len(q)) = q

\* str(ical.get(prop, ''))
ical_get(ical, prop) == IF prop \in DOMAIN ical THEN ical[prop] ELSE <<>>

score_of(event, query) ==
    LET ical == event.icalendar_component
        summary == lower(ical_get(ical, "SUMMARY"))
        description == lower(ical_get(ical, "DESCRIPTION"))
    IN  (IF in_str(lower(query), summary) THEN 2 ELSE 0)
        + (IF in_str(lower(query), description) THEN 1 ELSE 0)

\* the loop with  score >= 0  for  score > 0
RECURSIVE scored_from_all(_, _, _)
scored_from_all(events, query, i) ==
    IF i > Len(events) THEN <<>>
    ELSE LET event == events[i]
             score == score_of(event, query)
         IN  (IF DOMAIN event.icalendar_component = {} THEN <<>>
              ELSE IF score >= 0 THEN << <<score, event>> >>
              ELSE <<>>)
             \o scored_from_all(events, query, i + 1)

\* the loop that builds scored_events: <<score, event>> pairs in listing order
RECURSIVE scored_from(_, _, _)
scored_from(events, query, i) ==
    IF i > Len(events) THEN <<>>
    ELSE LET event == events[i]
             score == score_of(event, query)
         IN  (IF DOMAIN event.icalendar_component = {} THEN <<>>
              ELSE IF score > 0 THEN << <<score, event>> >>
              ELSE <<>>)
             \o scored_from(events, query, i + 1)

\* a sort that is not stable: x goes before the pairs of its own score
insert_desc_unstable(sorted, x) ==
    LET n == Cardinality({i \in DOMAIN sorted : sorted[i][1] > x[1]})
    IN  SubSeq(sorted, 1, n) \o <<x>> \o SubSeq(sorted, n + 1, Len(sorted))

\* one step of a stable descending sort: x goes after every pair scored >= x
insert_desc(sorted, x) ==
    LET n == Cardinality({i \in DOMAIN sorted : sorted[i][1] >= x[1]})
    IN  SubSeq(sorted, 1, n) \o <<x>> \o SubSeq(sorted, n + 1, Len(sorted))

\* scored_events.sort(key=lambda x: x[0], reverse=True)
RECURSIVE sort_desc(_)
sort_desc(scored) ==
    IF scored = <<>> THEN <<>>
    ELSE insert_desc(sort_desc(SubSeq(scored, 1, Len(scored) - 1)),
                     scored[Len(scored)])

\* a slice that takes a negative limit for 0
slice_to_clamped(s, limit) ==
    SubSeq(s, 1, IF limit < 0 THEN 0 ELSE IF limit < Len(s) THEN limit ELSE Len(s))

\* Python's  s[:limit]
slice_to(s, limit) ==
    IF limit >= 0
    THEN SubSeq(s, 1, IF limit < Len(s) THEN limit ELSE Len(s))
    ELSE SubSeq(s, 1, IF Len(s) + limit > 0 THEN Len(s) + limit ELSE 0)

search_events_try(S, calendar_id, query, limit, fail) ==
    IF Fails(S, fail) THEN Raise(Log(S, "calendars", 0, FALSE), UpstreamError)
    ELSE LET S1 == Log(S, "calendars", 0, TRUE)
             calendar == get_calendar_by_id(S1.cals, calendar_id)
         IN  IF calendar = None THEN Return(S1, CalendarNotFound(calendar_id))
             ELSE IF Fails(S1, fail)
             THEN Raise(Log(S1, "events", calendar, FALSE), UpstreamError)
             ELSE LET S2 == Log(S1, "events", calendar, TRUE)
                      events == S2.cals[calendar].events
                      scored_events == sort_desc(scored_from(events, query, 1))
                      sliced == slice_to(scored_events, limit)
                      res == [i \in DOMAIN sliced |-> sliced[i][2]]
                  IN  Return(S2, [events |-> res,
                                  count |-> Len(res),
                                  query |-> query,
                                  calendar_id |-> calendar_id])

search_events_except(e) == [error |-> <<"Error searching events: ">> \o e.msg]

search_events(S, calendar_id, query, limit, fail) ==
    IF ~principal THEN Return(S, NotConnected)
    ELSE LET o == search_events_try(S, calendar_id, query, limit, fail)
         IN  IF Raised(o) THEN [o EXCEPT !.ret = search_events_except(o.ret.raise)]
             ELSE o

----------------------------------------------------------------------------
(* Writes *)

\* first_missing that keeps looping: the last absent key
first_missing_last(event_data) ==
    IF \A i \in DOMAIN RequiredFields : RequiredFields[i] \in DOMAIN event_data
    THEN None
    ELSE CHOOSE i \in DOMAIN RequiredFields :
            /\ RequiredFields[i] \notin DOMAIN event_data
            /\ \A j \in (i + 1)..Len(RequiredFields) :
                    RequiredFields[j] \in DOMAIN event_data

\* the loop over required_fields: the position in RequiredFields of the first
\* key absent from event_data, or None
first_missing(event_data) ==
    IF \A i \in DOMAIN RequiredFields : RequiredFields[i] \in DOMAIN event_data
    THEN None
    ELSE CHOOSE i \in DOMAIN RequiredFields :
            /\ RequiredFields[i] \notin DOMAIN event_data
            /\ \A j \in 1..(i - 1) : RequiredFields[j] \in DOMAIN event_data

\* event_data.get(key, '')
data_get(event_data, key) ==
    IF key \in DOMAIN event_data THEN event_data[key] ELSE <<>>

\* caldav.Event(ical, uid=..., dtstart=..., ...).to_ical(): the payload
ical_event_of(event_data) ==
    [UID |-> event_data["uid"],
     DTSTART |-> event_data["start"],
     DTEND |-> event_data["end"],
     SUMMARY |-> event_data["summary"],
     LOCATION |-> data_get(event_data, "location"),
     DESCRIPTION |-> data_get(event_data, "description")]

\* calendar.add_event(payload): the service stores the event, last in the listing
add_event(cals, calendar, ical) ==
    [cals EXCEPT ![calendar].events = Append(@, Event(ical))]

\* a delete that drops every event of the calendar with the uid of the event
\* at position i
delete_every_match(cals, calendar, i) ==
    [cals EXCEPT ![calendar].events =
        SelectSeq(@, LAMBDA e : e.icalendar_component.UID
                                  # cals[calendar].events[i].icalendar_component.UID)]

\* event.delete(): the service drops the event at position i of the calendar
delete(cals, calendar, i) ==
    [cals EXCEPT ![calendar].events =
        SubSeq(@, 1, i - 1) \o SubSeq(@, i + 1, Len(@))]

\* create_event submitting to the first calendar of the listing, whichever
\* calendar the id resolved to
create_event_try_first(S, calendar_id, event_data, fail) ==
    IF Fails(S, fail) THEN Raise(Log(S, "calendars", 0, FALSE), UpstreamError)
    ELSE LET S1 == Log(S, "calendars", 0, TRUE)
             calendar == IF get_calendar_by_id(S1.cals, calendar_id) = None
                         THEN None ELSE 1
             missing == first_missing(event_data)
         IN  IF calendar = None THEN Return(S1, CalendarNotFound(calendar_id))
             ELSE IF missing # None
             THEN Return(S1, [error |-> <<"Missing required field: ",
                                          RequiredFields[missing]>>])
             ELSE IF Fails(S1, fail)
             THEN Raise(LogArg(S1, "Event", 0, FALSE, event_data), UpstreamError)
             ELSE LET S2 == LogArg(S1, "Event", 0, TRUE, event_data)
                      ical == ical_event_of(event_data)
                  IN  IF Fails(S2, fail)
                      THEN Raise(LogArg(S2, "add_event", calendar, FALSE, ical),
                                 UpstreamError)
                      ELSE LET S3 == LogArg(S2, "add_event", calendar, TRUE, ical)
                           IN  Return([S3 EXCEPT !.cals = add_event(@, calendar, ical)],
                                      [event |-> event_data])

create_event_try(S, calendar_id, event_data, fail) ==
    IF Fails(S, fail) THEN Raise(Log(S, "calendars", 0, FALSE), UpstreamError)
    ELSE LET S1 == Log(S, "calendars", 0, TRUE)
             calendar == get_calendar_by_id(S1.cals, calendar_id)
             missing == first_missing(event_data)
         IN  IF calendar = None THEN Return(S1, CalendarNotFound(calendar_id))
             ELSE IF missing # None
             THEN Return(S1, [error |-> <<"Missing required field: ",
                                          RequiredFields[missing]>>])
             ELSE IF Fails(S1, fail)
             THEN Raise(LogArg(S1, "Event", 0, FALSE, event_data), UpstreamError)
             ELSE LET S2 == LogArg(S1, "Event", 0, TRUE, event_data)
                      ical == ical_event_of(event_data)
                  IN  IF Fails(S2, fail)
                      THEN Raise(LogArg(S2, "add_event", calendar, FALSE, ical),
                                 UpstreamError)
                      ELSE LET S3 == LogArg(S2, "add_event", calendar, TRUE, ical)
                           IN  Return([S3 EXCEPT !.cals = add_event(@, calendar, ical)],
                                      [event |-> event_data])

create_event_except(e) ==
    IF e.type = "ValueError" THEN [error |-> e.msg]
    ELSE [error |-> <<"Error creating event: ">> \o e.msg]

create_event(S, calendar_id, event_data, fail) ==
    IF ~principal THEN Return(S, NotConnected)
    ELSE LET o == create_event_try(S, calendar_id, event_data, fail)
         IN  IF Raised(o) THEN [o EXCEPT !.ret = create_event_except(o.ret.raise)]
             ELSE o

delete_event_try(S, calendar_id, event_id, fail) ==
    IF Fails(S, fail) THEN Raise(Log(S, "calendars", 0, FALSE), UpstreamError)
    ELSE LET S1 == Log(S, "calendars", 0, TRUE)
             calendar == get_calendar_by_id(S1.cals, calendar_id)
         IN  IF calendar = None THEN Return(S1, CalendarNotFound(calendar_id))
             ELSE IF Fails(S1, fail)
             THEN Raise(Log(S1, "search", calendar, FALSE), UpstreamError)
             ELSE LET S2 == Log(S1, "search", calendar, TRUE)
                      events == search(S2.cals[calendar].events, event_id)
                  IN  IF events = <<>>
                      THEN Return(S2, EventNotFound(event_id, calendar_id))
                      ELSE IF Fails(S2, fail)
                      THEN Raise(Log(S2, "delete", calendar, FALSE), UpstreamError)
                      ELSE LET S3 == Log(S2, "delete", calendar, TRUE)
                           IN  Return([S3 EXCEPT !.cals = delete(@, calendar, events[1])],
                                      [message |-> <<"Event ", event_id,
                                                     " deleted successfully">>])

\* a handler that lets the failure through
delete_event_except_reraise(e) == [raise |-> e]

delete_event_except(e) == [error |-> <<"Error deleting event: ">> \o e.msg]

delete_event(S, calendar_id, event_id, fail) ==
    IF ~principal THEN Return(S, NotConnected)
    ELSE LET o == delete_event_try(S, calendar_id, event_id, fail)
         IN  IF Raised(o) THEN [o EXCEPT !.ret = delete_event_except(o.ret.raise)]
             ELSE o

\* event_data.setdefault('uid', event_id): a uid in the body wins
set_uid_default(event_data, event_id) ==
    [k \in DOMAIN event_data \cup {"uid"} |->
        IF k \in DOMAIN event_data THEN event_data[k] ELSE event_id]

\* event_data['uid'] = event_id
set_uid(event_data, event_id) ==
    [k \in DOMAIN event_data \cup {"uid"} |->
        IF k = "uid" THEN event_id ELSE event_data[k]]

\* update_event that validates the new data before it deletes the event
update_event_try_validating(S, calendar_id, event_id, event_data, fail) ==
    IF Fails(S, fail) THEN Raise(Log(S, "calendars", 0, FALSE), UpstreamError)
    ELSE LET S1 == Log(S, "calendars", 0, TRUE)
             calendar == get_calendar_by_id(S1.cals, calendar_id)
             missing == first_missing(set_uid(event_data, event_id))
         IN  IF calendar = None THEN Return(S1, CalendarNotFound(calendar_id))
             ELSE IF Fails(S1, fail)
             THEN Raise(Log(S1, "search", calendar, FALSE), UpstreamError)
             ELSE LET S2 == Log(S1, "search", calendar, TRUE)
                      events == search(S2.cals[calendar].events, event_id)
                  IN  IF events = <<>>
                      THEN Return(S2, EventNotFound(event_id, calendar_id))
                      ELSE IF missing # None
                      THEN Return(S2, [error |-> <<"Missing required field: ",
                                                   RequiredFields[missing]>>])
                      ELSE IF Fails(S2, fail)
                      THEN Raise(Log(S2, "delete", calendar, FALSE), UpstreamError)
                      ELSE LET S3 == Log(S2, "delete", calendar, TRUE)
                               S4 == [S3 EXCEPT !.cals = delete(@, calendar, events[1])]
                           IN  create_event(S4, calendar_id,
                                            set_uid(event_data, event_id), fail)

update_event_try(S, calendar_id, event_id, event_data, fail) ==
    IF Fails(S, fail) THEN Raise(Log(S, "calendars", 0, FALSE), UpstreamError)
    ELSE LET S1 == Log(S, "calendars", 0, TRUE)
             calendar == get_calendar_by_id(S1.cals, calendar_id)
         IN  IF calendar = None THEN Return(S1, CalendarNotFound(calendar_id))
             ELSE IF Fails(S1, fail)
             THEN Raise(Log(S1, "search", calendar, FALSE), UpstreamError)
             ELSE LET S2 == Log(S1, "search", calendar, TRUE)
                      events == search(S2.cals[calendar].events, event_id)
                  IN  IF events = <<>>
                      THEN Return(S2, EventNotFound(event_id, calendar_id))
                      ELSE IF Fails(S2, fail)
                      THEN Raise(Log(S2, "delete", calendar, FALSE), UpstreamError)
                      ELSE LET S3 == Log(S2, "delete", calendar, TRUE)
                               S4 == [S3 EXCEPT !.cals = delete(@, calendar, events[1])]
                           IN  create_event(S4, calendar_id,
                                            set_uid(event_data, event_id), fail)

update_event_except(e) == [error |-> <<"Error updating event: ">> \o e.msg]

\* update_event that reports the new data once the old event is deleted,
\* whatever create_event returned
update_event_ignoring(S, calendar_id, event_id, event_data, fail) ==
    IF ~principal THEN Return(S, NotConnected)
    ELSE LET o == update_event_try(S, calendar_id, event_id, event_data, fail)
         IN  IF Raised(o) THEN [o EXCEPT !.ret = [error |-> <<"Error updating event: ">>
                                                            \o o.ret.raise.msg]]
             ELSE IF Len(o.calls) >= 3 /\ o.calls[3].ok
             THEN [o EXCEPT !.ret = [event |-> set_uid(event_data, event_id)]]
             ELSE o

update_event(S, calendar_id, event_id, event_data, fail) ==
    IF ~principal THEN Return(S, NotConnected)
    ELSE LET o == update_event_try(S, calendar_id, event_id, event_data, fail)
         IN  IF Raised(o) THEN [o EXCEPT !.ret = update_event_except(o.ret.raise)]
             ELSE o

----------------------------------------------------------------------------
(* Event Model: the parser of caldav_client.py *)

\* date and time values: a datetime with a UTC offset in minutes, a datetime
\* without time zone (utcoffset absent), a date (no time of day)
DateTime(y, mo, d, h, mi, sec, off) ==
    [year |-> y, month |-> mo, day |-> d, hour |-> h, minute |-> mi,
     second |-> sec, utcoffset |-> off]
Date(y, mo, d) == [year |-> y, month |-> mo, day |-> d]

DateTimes ==
    { DateTime(2023, 1, 1, 10, 0, 0, Some(0)),
      DateTime(2024, 12, 31, 23, 59, 5, Some(330)),
      DateTime(2023, 1, 1, 2, 30, 0, Some(-480)),
      DateTime(2023, 1, 1, 10, 0, 0, NoValue),
      Date(2023, 1, 1) }

\* a DTSTART or DTEND property: its value is reached through .dt
vDDDTypes(dt) == [dt |-> dt]

Texts == {<<>>, <<"A", "b">>}

Digit(n) == <<"0", "1", "2", "3", "4", "5", "6", "7", "8", "9">>[n + 1]

\* n in decimal, zero-padded to w digits
RECURSIVE Digits(_, _)
Digits(n, w) == IF w = 0 THEN <<>> ELSE Digits(n \div 10, w - 1) \o <<Digit(n % 10)>>

\* %z: empty without a UTC offset, else the sign and HHMM
strftime_z(dt) ==
    IF "utcoffset" \notin DOMAIN dt \/ dt.utcoffset = NoValue THEN <<>>
    ELSE LET off == dt.utcoffset[1]
             a == IF off < 0 THEN -off ELSE off
         IN  <<IF off < 0 THEN "-" ELSE "+">> \o Digits(a \div 60, 2) \o Digits(a % 60, 2)

\* dt.strftime("%Y%m%dT%H%M%S%z"); a date has no time of day: 00 for each
strftime(dt) ==
    LET time(f) == IF f \in DOMAIN dt THEN dt[f] ELSE 0
    IN  Digits(dt.year, 4) \o Digits(dt.month, 2) \o Digits(dt.day, 2) \o <<"T">>
        \o Digits(time("hour"), 2) \o Digits(time("minute"), 2)
        \o Digits(time("second"), 2) \o strftime_z(dt)

\* str(x) of a looked-up value: the text, or "None" for None
str(x) == IF x = NoValue THEN <<"N", "o", "n", "e">> ELSE x[1]

\* ical.get(prop): the property or None
get(ical, prop) == IF prop \in DOMAIN ical THEN Some(ical[prop]) ELSE NoValue

\* truth value of a looked-up text property: None and the empty text are false
truthy(x) == x # NoValue /\ x[1] # <<>>

CalendarEvent(uid, summary, start, end, location, description) ==
    [uid |-> uid, summary |-> summary, start |-> start, end |-> end,
     location |-> location, description |-> description]

\* a property object of a date or time is true whatever its value
to_calendar_event(caldav_event) ==
    LET ical == caldav_event.icalendar_component
        uid == str(get(ical, "UID"))
        summary == ical_get(ical, "SUMMARY")
        start == IF "DTSTART" \in DOMAIN ical THEN strftime(ical.DTSTART.dt) ELSE <<>>
        end == IF "DTEND" \in DOMAIN ical THEN strftime(ical.DTEND.dt) ELSE <<>>
        location == IF truthy(get(ical, "LOCATION"))
                    THEN Some(ical_get(ical, "LOCATION")) ELSE NoValue
        description == IF truthy(get(ical, "DESCRIPTION"))
                       THEN Some(ical_get(ical, "DESCRIPTION")) ELSE NoValue
    IN  CalendarEvent(uid, summary, start, end, location, description)

\* CalDAVClient.get_events(calendar): no handler, what events() raises leaves it
client_get_events(S, calendar, fail) ==
    IF Fails(S, fail) THEN Raise(Log(S, "events", calendar, FALSE), UpstreamError)
    ELSE LET S1 == Log(S, "events", calendar, TRUE)
             events == S1.cals[calendar].events
         IN  Return(S1, [return |-> [i \in DOMAIN events |-> to_calendar_event(events[i])]])

----------------------------------------------------------------------------
(* The tool calls as actions: a call runs its handler to completion *)

\* a call that works on the listing of construction time, not on the service
Start_cached == [cals |-> <<Calendar("c1", "Work", <<>>), Calendar("c2", "Home", <<>>)>>,
                 calls |-> <<>>]

Start == [cals |-> calendars, calls |-> <<>>]

RECURSIVE TotalEvents(_)
TotalEvents(cals) ==
    IF cals = <<>> THEN 0
    ELSE Len(cals[1].events) + TotalEvents(Tail(cals))

\* history: what a successful delete, create or update does to `deleted`
Deleted(o, out) ==
    IF o.name = "delete_event" /\ "message" \in DOMAIN out.ret
    THEN deleted \cup {<<o.calendar_id, o.event_id>>}
    ELSE IF o.name \in {"create_event", "update_event"} /\ "event" \in DOMAIN out.ret
    THEN deleted \ {<<o.calendar_id, out.ret.event["uid"]>>}
    ELSE deleted

\* a dispatcher that drops the principal handle when a call returns an error
Commit_disconnecting(o, out) ==
    /\ pc = "idle"
    /\ TotalEvents(out.cals) > TotalEvents(calendars)
        => TotalEvents(out.cals) <= MaxEvents
    /\ pc' = "returned"
    /\ op' = o
    /\ result' = out.ret
    /\ calendars' = out.cals
    /\ calls' = out.calls
    /\ deleted' = Deleted(o, out)
    /\ principal' = ("error" \notin DOMAIN out.ret)
    /\ UNCHANGED <<environ, session>>

Commit(o, out) ==
    /\ pc = "idle"
    \* the bound of the model: the service takes no event beyond MaxEvents
    /\ TotalEvents(out.cals) > TotalEvents(calendars)
        => TotalEvents(out.cals) <= MaxEvents
    /\ pc' = "returned"
    /\ op' = o
    /\ result' = out.ret
    /\ calendars' = out.cals
    /\ calls' = out.calls
    /\ deleted' = Deleted(o, out)
    /\ UNCHANGED <<environ, session, principal>>

\* fail: which service call of the tool call raises (0: none)
GetCalendars ==
    \E fail \in 0..1 :
        Commit([name |-> "get_calendars"], get_calendars(Start, fail))

GetEvents ==
    \E calendar_id \in CalendarIds, fail \in 0..2 :
        Commit([name |-> "get_events", calendar_id |-> calendar_id],
               get_events(Start, calendar_id, fail))

GetEventById ==
    \E calendar_id \in CalendarIds, event_id \in EventIds, fail \in 0..2 :
        Commit([name |-> "get_event_by_id", calendar_id |-> calendar_id,
                event_id |-> event_id],
               get_event_by_id(Start, calendar_id, event_id, fail))

GetEventsInRange ==
    \E calendar_id \in CalendarIds, start_time \in TimeStrings,
       end_time \in TimeStrings, fail \in 0..2 :
        Commit([name |-> "get_events_in_range", calendar_id |-> calendar_id,
                start_time |-> start_time, end_time |-> end_time],
               get_events_in_range(Start, calendar_id, start_time, end_time, fail))

SearchEvents ==
    \E calendar_id \in CalendarIds, query \in Queries, limit \in Limits,
       fail \in 0..2 :
        Commit([name |-> "search_events", calendar_id |-> calendar_id,
                query |-> query, limit |-> limit],
               search_events(Start, calendar_id, query, limit, fail))

CreateEvent ==
    \E calendar_id \in CalendarIds, event_data \in EventDatas, fail \in 0..3 :
        Commit([name |-> "create_event", calendar_id |-> calendar_id,
                event_data |-> event_data],
               create_event(Start, calendar_id, event_data, fail))

DeleteEvent ==
    \E calendar_id \in CalendarIds, event_id \in EventIds, fail \in 0..3 :
        Commit([name |-> "delete_event", calendar_id |-> calendar_id,
                event_id |-> event_id],
               delete_event(Start, calendar_id, event_id, fail))

UpdateEvent ==
    \E calendar_id \in CalendarIds, event_id \in EventIds,
       event_data \in EventDatas, fail \in 0..6 :
        Commit([name |-> "update_event", calendar_id |-> calendar_id,
                event_id |-> event_id, event_data |-> event_data],
               update_event(Start, calendar_id, event_id, event_data, fail))

\* the dispatcher hands the envelope to the caller and accepts the next call
Respond ==
    /\ pc = "returned"
    /\ pc' = "idle"
    /\ op' = NoOp
    /\ result' = NoResult
    /\ calls' = <<>>
    /\ UNCHANGED <<environ, session, principal, calendars, deleted>>

\* the service when the server is constructed: no calendar; two calendars;
\* a calendar that holds an event, listed before another of the same id
InitListings ==
    { <<>>,
      <<Calendar("c1", "Work", <<>>), Calendar("c2", "Home", <<>>)>>,
      <<Calendar("c2", "Home", <<Event(VEvent("e1", <<"b">>, <<"A">>))>>),
        Calendar("c2", "Shadow", <<>>)>> }

\* __init__: the settings are read and _connect is called, unguarded; the
\* principal() request of _connect is answered or raises, and what it raises
\* leaves the constructor
Construct ==
    /\ pc = "new"
    /\ session' = connect(EnvironmentConfigurationProvider(environ))
    /\ \E raises \in BOOLEAN :
        /\ principal' = ~raises
        /\ pc' = IF raises THEN "failed" ELSE "idle"
        /\ result' = IF raises THEN [raise |-> UpstreamError] ELSE NoResult
    /\ UNCHANGED <<environ, calendars, op, calls, deleted>>

Init ==
    /\ environ = FullEnv
    /\ session = Connected
    /\ principal = TRUE
    /\ calendars \in InitListings
    /\ pc = "idle"
    /\ op = NoOp
    /\ result = NoResult
    /\ calls = <<>>
    /\ deleted = {}

Next ==
    \/ GetCalendars
    \/ GetEvents
    \/ GetEventById
    \/ GetEventsInRange
    \/ SearchEvents
    \/ CreateEvent
    \/ DeleteEvent
    \/ UpdateEvent
    \/ Respond

Spec == Init /\ [][Next]_vars

----------------------------------------------------------------------------
(* The construction specification: the server is constructed under every
   combination of set and unset settings, over a service without calendars,
   and then takes tool calls *)

ConstructInit ==
    /\ environ \in Environments
    /\ session = NoSession
    /\ principal = FALSE
    /\ calendars = <<>>
    /\ pc = "new"
    /\ op = NoOp
    /\ result = NoResult
    /\ calls = <<>>
    /\ deleted = {}

ConstructNext ==
    \/ Construct
    \/ GetCalendars
    \/ GetEvents
    \/ GetEventById
    \/ GetEventsInRange
    \/ SearchEvents
    \/ CreateEvent
    \/ DeleteEvent
    \/ UpdateEvent
    \/ Respond

ConstructSpec == ConstructInit /\ [][ConstructNext]_vars

----------------------------------------------------------------------------
(* The listing specification: between tool calls the service gains and loses
   calendars through its other clients, so that principal.calendars() lists
   something else in the next call *)

CalendarName(id) == IF id = "c1" THEN "Work" ELSE "Home"

\* a calendar of an id that is not listed is created, empty, last in the listing
ServiceAddCalendar ==
    /\ pc = "idle"
    /\ \E id \in CalendarIds :
        /\ \A i \in DOMAIN calendars : calendars[i].id # id
        /\ calendars' = Append(calendars, Calendar(id, CalendarName(id), <<>>))
    /\ UNCHANGED <<environ, session, principal, pc, op, result, calls, deleted>>

\* a calendar is removed, with its events
ServiceRemoveCalendar ==
    /\ pc = "idle"
    /\ \E i \in DOMAIN calendars :
        calendars' = SubSeq(calendars, 1, i - 1) \o SubSeq(calendars, i + 1, Len(calendars))
    /\ UNCHANGED <<environ, session, principal, pc, op, result, calls, deleted>>

ListingInit ==
    /\ environ = FullEnv
    /\ session = Connected
    /\ principal = TRUE
    /\ calendars = <<Calendar("c1", "Work", <<>>), Calendar("c2", "Home", <<>>)>>
    /\ pc = "idle"
    /\ op = NoOp
    /\ result = NoResult
    /\ calls = <<>>
    /\ deleted = {}

\* the bound of this specification: create_event is called while the service
\* holds fewer than MaxListingEvents events
ListingCreateEvent ==
    /\ TotalEvents(calendars) < MaxListingEvents
    /\ CreateEvent

ListingNext ==
    \/ ServiceAddCalendar
    \/ ServiceRemoveCalendar
    \/ GetCalendars
    \/ GetEvents
    \/ GetEventById
    \/ GetEventsInRange
    \/ SearchEvents
    \/ ListingCreateEvent
    \/ DeleteEvent
    \/ UpdateEvent
    \/ Respond

ListingSpec == ListingInit /\ [][ListingNext]_vars

----------------------------------------------------------------------------
(* The parser specification: CalDAVClient.get_events on a calendar that holds
   one upstream event, over every combination of present and absent
   properties and of their values *)

UpstreamComponents ==
    [UID : {"e1"}, SUMMARY : Texts,
     DTSTART : {vDDDTypes(dt) : dt \in DateTimes},
     DTEND : {vDDDTypes(dt) : dt \in DateTimes},
     LOCATION : Texts, DESCRIPTION : Texts]

UpstreamEvents ==
    { Event(Restrict(ical, K)) :
        ical \in UpstreamComponents,
        K \in SUBSET {"UID", "SUMMARY", "DTSTART", "DTEND", "LOCATION", "DESCRIPTION"} }

ClientGetEvents ==
    /\ pc = "idle"
    /\ \E fail \in 0..1 :
        LET out == client_get_events(Start, 1, fail)
        IN  /\ pc' = "returned"
            /\ op' = [name |-> "CalDAVClient.get_events"]
            /\ result' = out.ret
            /\ calls' = out.calls
    /\ UNCHANGED <<environ, session, principal, calendars, deleted>>

ParserInit ==
    /\ environ = FullEnv
    /\ session = Connected
    /\ principal = TRUE
    /\ \E e \in UpstreamEvents : calendars = <<Calendar("c1", "Work", <<e>>)>>
    /\ pc = "idle"
    /\ op = NoOp
    /\ result = NoResult
    /\ calls = <<>>
    /\ deleted = {}

ParserNext ==
    \/ ClientGetEvents
    \/ Respond

ParserSpec == ParserInit /\ [][ParserNext]_vars

----------------------------------------------------------------------------
(* The search specification: search_events over every calendar content of up
   to MaxSearchEvents events drawn from SearchEventKinds *)

\* events that differ in what a query matches: a summary only; a summary and
\* a description; no SUMMARY property; an event whose component is empty
SearchEventKinds ==
    { Event([UID |-> "e1", SUMMARY |-> <<"A", "b">>, DESCRIPTION |-> <<>>]),
      Event([UID |-> "e1", SUMMARY |-> <<"b">>, DESCRIPTION |-> <<"A">>]),
      Event([UID |-> "e2", SUMMARY |-> <<"a">>, DESCRIPTION |-> <<"a", "B">>]),
      Event([UID |-> "e2", DESCRIPTION |-> <<"b">>]),
      Event([p \in {} |-> <<>>]) }

RECURSIVE SeqsUpTo(_, _)
SeqsUpTo(S, n) ==
    IF n = 0 THEN {<<>>}
    ELSE LET shorter == SeqsUpTo(S, n - 1)
         IN  shorter \cup {Append(q, x) : q \in shorter, x \in S}

SearchInit ==
    /\ environ = FullEnv
    /\ session = Connected
    /\ principal = TRUE
    /\ calendars \in {<<Calendar("c1", "Work", events)>> :
                        events \in SeqsUpTo(SearchEventKinds, MaxSearchEvents)}
    /\ pc = "idle"
    /\ op = NoOp
    /\ result = NoResult
    /\ calls = <<>>
    /\ deleted = {}

SearchNext ==
    \/ SearchEvents
    \/ Respond

SearchSpec == SearchInit /\ [][SearchNext]_vars

----------------------------------------------------------------------------
(* What the claims speak of, stated on the service and the trace alone *)

EventOps ==
    {"get_events", "get_event_by_id", "get_events_in_range", "search_events",
     "create_event", "delete_event", "update_event"}

\* a step in which a tool call runs
IsCall == pc = "idle" /\ pc' = "returned"

HasCalendar(listing, cid) == \E i \in DOMAIN listing : listing[i].id = cid

FirstCalendar(listing, cid) ==
    CHOOSE i \in DOMAIN listing :
        listing[i].id = cid /\ \A j \in DOMAIN listing : listing[j].id = cid => i <= j

HasUid(event, uid) ==
    "UID" \in DOMAIN event.icalendar_component /\ event.icalendar_component.UID = uid

HasEvent(events, uid) == \E i \in DOMAIN events : HasUid(events[i], uid)

FirstEvent(events, uid) ==
    CHOOSE i \in DOMAIN events :
        HasUid(events[i], uid) /\ \A j \in DOMAIN events : HasUid(events[j], uid) => i <= j

RemoveAt(events, i) == [j \in 1..(Len(events) - 1) |-> IF j < i THEN events[j] ELSE events[j + 1]]

ListingOk == Call("calendars", 0, TRUE)
ListingRaised(cs) == cs # <<>> /\ cs[1] = Call("calendars", 0, FALSE)
SomeCallRaised(cs) == \E i \in DOMAIN cs : ~cs[i].ok
Issued(cs, name) == \E i \in DOMAIN cs : cs[i].call = name

----------------------------------------------------------------------------
(* C1 *)

\* C1: for each of the seven event operations, when the listing is obtained and
\* no calendar in it has the id calendar_id, the call returns exactly
\* {"error": "Calendar with ID <calendar_id> not found"}, has issued the listing
\* and no other call (no event listing, search, range query, add or delete),
\* and leaves the service as it was, whatever the other arguments are.
C1_CalendarNotFound ==
    [][ ( /\ IsCall
          /\ principal
          /\ op'.name \in EventOps
          /\ ~HasCalendar(calendars, op'.calendar_id)
          /\ ~ListingRaised(calls') )
        => /\ result' = CalendarNotFound(op'.calendar_id)
           /\ calls' = <<ListingOk>>
           /\ calendars' = calendars ]_vars

\* a range query with a malformed timestamp on a calendar id that is not listed
C1_Witness ==
    /\ pc = "returned"
    /\ op.name = "get_events_in_range"
    /\ op.start_time = "invalid-date"
    /\ ~HasCalendar(calendars, op.calendar_id)
    /\ result = CalendarNotFound(op.calendar_id)

----------------------------------------------------------------------------
(* C2 *)

UpdateOrder == <<"calendars", "search", "delete", "calendars", "Event", "add_event">>

DeleteDone(cs) == Len(cs) >= 3 /\ cs[3].call = "delete" /\ cs[3].ok
AddDone(cs) == \E i \in DOMAIN cs : cs[i].call = "add_event" /\ cs[i].ok

\* C2: update_event issues its calls in the order listing, search, delete, then
\* create_event's listing, payload and add, and stops at the first that raises;
\* whenever the delete was done and the create step did not store the new event
\* (the service rejects a call, or create_event returns an error), update_event
\* returns an envelope with "error" and no success key, and the calendar is left
\* without the deleted event: nothing is restored.
C2_UpdateNoRollback ==
    [][ (IsCall /\ principal /\ op'.name = "update_event")
        => /\ Len(calls') <= Len(UpdateOrder)
           /\ \A i \in DOMAIN calls' :
                /\ calls'[i].call = UpdateOrder[i]
                /\ i < Len(calls') => calls'[i].ok
           /\ (DeleteDone(calls') /\ ~AddDone(calls'))
              => /\ DOMAIN result' = {"error"}
                 /\ LET c == FirstCalendar(calendars, op'.calendar_id)
                    IN  calendars' =
                            [calendars EXCEPT ![c].events =
                                RemoveAt(@, FirstEvent(@, op'.event_id))] ]_vars

\* the service rejects the add after the delete was done
C2_Witness ==
    /\ pc = "returned"
    /\ op.name = "update_event"
    /\ DeleteDone(calls)
    /\ Len(calls) = 6
    /\ calls[6].call = "add_event"
    /\ ~calls[6].ok
    /\ "error" \in DOMAIN result
    /\ ~HasEvent(calendars[FirstCalendar(calendars, op.calendar_id)].events, op.event_id)

----------------------------------------------------------------------------
(* C3 *)

\* C3: whenever update_event reaches its create step, the event_data handed on
\* and the payload submitted to the calendar carry uid = event_id, whatever uid
\* event_data had; a successful update_event returns {"event": d} with
\* d["uid"] = event_id and leaves the submitted event, with that uid, last in
\* the calendar.
C3_UpdateKeepsEventId ==
    [][ (IsCall /\ principal /\ op'.name = "update_event")
        => /\ \A i \in DOMAIN calls' :
                /\ calls'[i].call = "Event" => calls'[i].arg["uid"] = op'.event_id
                /\ calls'[i].call = "add_event" => calls'[i].arg.UID = op'.event_id
           /\ "error" \notin DOMAIN result'
              => /\ DOMAIN result' = {"event"}
                 /\ result'.event["uid"] = op'.event_id
                 /\ LET events == calendars'[FirstCalendar(calendars, op'.calendar_id)].events
                    IN  /\ events # <<>>
                        /\ HasUid(events[Len(events)], op'.event_id) ]_vars

\* a successful update whose event_data carried another uid
C3_Witness ==
    /\ pc = "returned"
    /\ op.name = "update_event"
    /\ "uid" \in DOMAIN op.event_data
    /\ op.event_data["uid"] # op.event_id
    /\ "event" \in DOMAIN result
    /\ result.event["uid"] = op.event_id

----------------------------------------------------------------------------
(* C4 *)

\* C4: when the calendar resolves, no call raises and the calendar holds no
\* event with uid event_id, delete_event and update_event return the error
\* "Event with ID <event_id> not found in calendar <calendar_id>", issue the
\* listing and the search and nothing else (no delete, no create), and leave
\* every calendar's events as they were.
C4_EventNotFound ==
    [][ ( /\ IsCall
          /\ principal
          /\ op'.name \in {"delete_event", "update_event"}
          /\ HasCalendar(calendars, op'.calendar_id)
          /\ ~HasEvent(calendars[FirstCalendar(calendars, op'.calendar_id)].events,
                       op'.event_id)
          /\ ~SomeCallRaised(calls') )
        => /\ result' = EventNotFound(op'.event_id, op'.calendar_id)
           /\ calls' = <<ListingOk,
                         Call("search", FirstCalendar(calendars, op'.calendar_id), TRUE)>>
           /\ calendars' = calendars ]_vars

\* update_event of an absent event on a calendar that holds another event
C4_Witness ==
    /\ pc = "returned"
    /\ op.name = "update_event"
    /\ result = EventNotFound(op.event_id, op.calendar_id)
    /\ calendars[FirstCalendar(calendars, op.calendar_id)].events # <<>>
    /\ ~Issued(calls, "delete")

----------------------------------------------------------------------------
(* C5 *)

\* C5: no tool call lets a failure escape: every call returns an envelope, and
\* when a call to the service raised, at whatever step, the envelope has the
\* key "error" and no other key.
C5_NoExceptionEscapes ==
    pc = "returned"
    => /\ "raise" \notin DOMAIN result
       /\ SomeCallRaised(calls) => DOMAIN result = {"error"}

\* the service rejects the delete of delete_event
C5_Witness ==
    /\ pc = "returned"
    /\ op.name = "delete_event"
    /\ Len(calls) = 3
    /\ calls[3] = Call("delete", FirstCalendar(calendars, op.calendar_id), FALSE)
    /\ result = [error |-> <<"Error deleting event: ", "upstream failure">>]

----------------------------------------------------------------------------
(* C6 *)

FirstAbsent(event_data) ==
    IF "uid" \notin DOMAIN event_data THEN "uid"
    ELSE IF "summary" \notin DOMAIN event_data THEN "summary"
    ELSE IF "start" \notin DOMAIN event_data THEN "start"
    ELSE "end"

Incomplete(event_data) == ~({"uid", "summary", "start", "end"} \subseteq DOMAIN event_data)

\* C6: create_event on a resolved calendar with event_data lacking any of uid,
\* summary, start, end returns {"error": "Missing required field: <f>"} with
\* <f> the first absent key in the order uid, summary, start, end, issues no
\* call but the listing (no add) and leaves the calendars as they were.
C6_FirstMissingField ==
    [][ ( /\ IsCall
          /\ principal
          /\ op'.name = "create_event"
          /\ HasCalendar(calendars, op'.calendar_id)
          /\ Incomplete(op'.event_data)
          /\ ~ListingRaised(calls') )
        => /\ result' = [error |-> <<"Missing required field: ",
                                     FirstAbsent(op'.event_data)>>]
           /\ calls' = <<ListingOk>>
           /\ calendars' = calendars ]_vars

\* event_data without summary and without end: summary is the one reported
C6_Witness ==
    /\ pc = "returned"
    /\ op.name = "create_event"
    /\ DOMAIN op.event_data = {"uid", "start"}
    /\ result = [error |-> <<"Missing required field: ", "summary">>]

----------------------------------------------------------------------------
(* C7, C8: checked under SearchSpec *)

SameLetter(a, b) == a = b \/ {a, b} = {"a", "A"} \/ {a, b} = {"b", "B"}

\* q occurs in s, letter case ignored
OccursIn(q, s) ==
    \E k \in 0..Len(s) :
        /\ k + Len(q) <= Len(s)
        /\ \A j \in 1..Len(q) : SameLetter(q[j], s[k + j])

PropertyOf(event, p) ==
    IF p \in DOMAIN event.icalendar_component THEN event.icalendar_component[p] ELSE <<>>

WantScore(event, q) ==
    (IF OccursIn(q, PropertyOf(event, "SUMMARY")) THEN 2 ELSE 0)
    + (IF OccursIn(q, PropertyOf(event, "DESCRIPTION")) THEN 1 ELSE 0)

HasComponent(event) == DOMAIN event.icalendar_component # {}

SearchReturned ==
    pc = "returned" /\ op.name = "search_events" /\ "events" \in DOMAIN result

Searched == calendars[FirstCalendar(calendars, op.calendar_id)].events

\* C7: every event search_events returns is an event of the resolved calendar
\* whose score (2 if the query occurs in the summary, letter case ignored, plus
\* 1 if it occurs in the description) is greater than 0: no event of score 0 is
\* returned, for every query and content of the calendar.  (An event without a
\* component has nothing to score and is not returned either.)
C7_NoZeroScore ==
    SearchReturned
    => \A i \in DOMAIN result.events :
        /\ \E j \in DOMAIN Searched : Searched[j] = result.events[i]
        /\ HasComponent(result.events[i])
        /\ WantScore(result.events[i], op.query) > 0

\* a search that returns some events and leaves out, with room to spare, an
\* event that has a component and score 0
C7_Witness ==
    /\ SearchReturned
    /\ result.events # <<>>
    /\ op.limit > Len(Searched)
    /\ \E j \in DOMAIN Searched :
        HasComponent(Searched[j]) /\ WantScore(Searched[j], op.query) = 0

\* positions of the matching events: a component and a score above 0
Matching == {i \in DOMAIN Searched :
                HasComponent(Searched[i]) /\ WantScore(Searched[i], op.query) > 0}

\* i comes before j: a higher score, or the same score and earlier in the listing
ComesBefore(i, j) ==
    \/ WantScore(Searched[i], op.query) > WantScore(Searched[j], op.query)
    \/ /\ WantScore(Searched[i], op.query) = WantScore(Searched[j], op.query)
       /\ i < j

PlaceOf(i) == 1 + Cardinality({j \in Matching : ComesBefore(j, i)})

\* C8: for limit >= 0 the events returned are the first min(limit, matches) of
\* the matching events in descending order of score, events of equal score in
\* the order of the listing; count is the number returned and is at most limit.
C8_SortedStableTruncated ==
    (SearchReturned /\ op.limit >= 0)
    => LET n == IF op.limit < Cardinality(Matching) THEN op.limit
                ELSE Cardinality(Matching)
       IN  /\ Len(result.events) = n
           /\ result.count = Len(result.events)
           /\ result.count <= op.limit
           /\ \A i \in Matching :
                PlaceOf(i) <= n => result.events[PlaceOf(i)] = Searched[i]

\* three matches, limit 2: the lowest score is listed first and dropped, the
\* two returned differ, have the same score and keep the order of the listing
C8_Witness ==
    /\ SearchReturned
    /\ op.limit = 2
    /\ Len(Searched) = 3
    /\ Matching = {1, 2, 3}
    /\ WantScore(Searched[1], op.query) < WantScore(Searched[2], op.query)
    /\ WantScore(Searched[2], op.query) = WantScore(Searched[3], op.query)
    /\ Searched[2] # Searched[3]
    /\ result.events = <<Searched[2], Searched[3]>>

----------------------------------------------------------------------------
(* C9, C10 *)

\* C9: after delete_event(c, e) has returned its success message, and until a
\* create_event or update_event with uid e succeeds on c, get_event_by_id(c, e)
\* (no call of it raising) returns the error that e is not found in c.
C9_DeletedStaysGone ==
    ( /\ pc = "returned"
      /\ op.name = "get_event_by_id"
      /\ <<op.calendar_id, op.event_id>> \in deleted
      /\ ~SomeCallRaised(calls) )
    => result = EventNotFound(op.event_id, op.calendar_id)

\* C10: no calendar holds two events with the same uid.
C10_UniqueUids ==
    \A c \in DOMAIN calendars :
        \A i, j \in DOMAIN calendars[c].events :
            LET a == calendars[c].events[i].icalendar_component
                b == calendars[c].events[j].icalendar_component
            IN  (i # j /\ "UID" \in DOMAIN a /\ "UID" \in DOMAIN b) => a.UID # b.UID

----------------------------------------------------------------------------
(* C11 *)

Configured == DOMAIN environ = DOMAIN FullEnv

\* C11: when any of the URL, the username or the password is not set,
\* constructing the server does not fail and yields an unconnected session:
\* every tool call returns {"error": "Not connected to CalDAV server"} and
\* issues no service call.
C11_UnconfiguredIsUnconnected ==
    ~Configured =>
        /\ pc # "failed"
        /\ pc \in {"idle", "returned"} => ~principal
        /\ pc = "returned" => result = NotConnected /\ calls = <<>>

----------------------------------------------------------------------------
(* C12 *)

EventModelFields == {"uid", "summary", "start", "end", "location", "description"}

ListOps == {"get_events", "get_events_in_range", "search_events"}

ReturnedEvents == pc = "returned" /\ op.name \in ListOps /\ "events" \in DOMAIN result
ReturnedEvent == pc = "returned" /\ op.name = "get_event_by_id" /\ "event" \in DOMAIN result

Listed == calendars[FirstCalendar(calendars, op.calendar_id)].events

\* the statement of C12 as made: what the read operations return are records
\* of the Event Model (uid, summary, start, end, location, description), one
\* for each event, and not the upstream event objects
C12_NormalizedEvents ==
    /\ ReturnedEvents =>
        /\ \A i \in DOMAIN result.events : DOMAIN result.events[i] = EventModelFields
        /\ op.name = "get_events" =>
            /\ Len(result.events) = Len(Listed)
            /\ \A i \in DOMAIN Listed :
                    result.events[i].uid = Listed[i].icalendar_component.UID
    /\ ReturnedEvent => DOMAIN result.event = EventModelFields

\* C12: get_events on a resolved calendar returns every event of the calendar
\* in the order of the service, each as the upstream event object itself, not
\* converted to a record of the Event Model; get_event_by_id,
\* get_events_in_range and search_events return upstream event objects of the
\* calendar as well.
C12_RawEvents ==
    /\ ReturnedEvents =>
        /\ op.name = "get_events" => result.events = Listed
        /\ \A i \in DOMAIN result.events : result.events[i] \in Range(Listed)
    /\ ReturnedEvent => result.event \in Range(Listed)

C12_Witness ==
    /\ ReturnedEvents
    /\ op.name = "get_events"
    /\ Len(result.events) = 2
    /\ result.events[1] # result.events[2]
    /\ "icalendar_component" \in DOMAIN result.events[1]

----------------------------------------------------------------------------
(* C13 *)

\* the calendar of a service call, for the calls that are made on a calendar
OnCalendar(c) == c.call \notin {"calendars", "Event"}

CountOf(cs, name) == Cardinality({i \in DOMAIN cs : cs[i].call = name})

\* an event operation has returned after a listing that was obtained
Resolved ==
    /\ pc = "returned"
    /\ op.name \in EventOps
    /\ calls # <<>>
    /\ calls[1] = ListingOk

\* resolution as the event operations show it: the calls on a calendar go to
\* the first calendar of the listing that has the id, after one listing
\* (update_event resolves a second time when it creates); not-found and the
\* listing alone when no calendar has the id
FirstMatchResolution ==
    Resolved =>
        IF HasCalendar(calendars, op.calendar_id)
        THEN /\ result # CalendarNotFound(op.calendar_id)
             /\ \A j \in DOMAIN calls : OnCalendar(calls[j]) =>
                    calls[j].cal = FirstCalendar(calendars, op.calendar_id)
             /\ op.name # "update_event" => CountOf(calls, "calendars") = 1
        ELSE /\ result = CalendarNotFound(op.calendar_id)
             /\ calls = <<ListingOk>>

ReportedCalendars ==
    pc = "returned" /\ op.name = "get_calendars" /\ "calendars" \in DOMAIN result

\* get_calendars reports the calendars of the listing, one entry each, in order
ReportsListing ==
    ReportedCalendars =>
        /\ Len(result.calendars) = Len(calendars)
        /\ \A i \in DOMAIN calendars :
            /\ result.calendars[i].id = calendars[i].id
            /\ result.calendars[i].name = calendars[i].name

\* the statement of C13 as made: first-match resolution, and every id that
\* get_calendars reports resolves, on the same listing, to the calendar it was
\* reported for
C13_ReportedIdResolvesToItsCalendar ==
    /\ FirstMatchResolution
    /\ ReportsListing
    /\ ReportedCalendars =>
        \A i \in DOMAIN result.calendars :
            get_calendar_by_id(calendars, result.calendars[i].id) = i

\* C13: calendar resolution scans one listing in listing order: for an id that
\* some calendar of the listing has it yields the first calendar with that id,
\* also when several share it, and for an id that none has it reports
\* not-found; every id reported by get_calendars resolves, on the same listing,
\* to the first calendar reported with that id, which is the calendar it was
\* reported for exactly when no earlier calendar has the same id.
C13_FirstMatch ==
    /\ FirstMatchResolution
    /\ ReportsListing
    /\ ReportedCalendars =>
        \A i \in DOMAIN result.calendars :
            LET r == get_calendar_by_id(calendars, result.calendars[i].id)
            IN  /\ r \in DOMAIN calendars
                /\ calendars[r].id = calendars[i].id
                /\ \A j \in 1..(r - 1) : calendars[j].id # calendars[i].id
                /\ (r = i) <=> (\A j \in 1..(i - 1) : calendars[j].id # calendars[i].id)

\* two calendars reported with the same id
C13_Witness ==
    /\ ReportedCalendars
    /\ Len(result.calendars) = 2
    /\ result.calendars[1].id = result.calendars[2].id
    /\ result.calendars[1].name # result.calendars[2].name

----------------------------------------------------------------------------
(* C14 *)

\* C14: on a resolved calendar whose search by identifier is answered,
\* get_event_by_id returns "Event with ID <event_id> not found in calendar
\* <calendar_id>" when no event has the uid, and otherwise {"event": x} with x
\* the first event of the calendar with the uid, also when several have it;
\* delete_event and update_event select the same first event: they issue
\* exactly one delete, and when it is carried out that event alone is gone,
\* the other events, those of the same uid included, staying in their order.
C14_FirstOfResult ==
    [][ ( /\ IsCall
          /\ principal
          /\ op'.name \in {"get_event_by_id", "delete_event", "update_event"}
          /\ HasCalendar(calendars, op'.calendar_id)
          /\ Len(calls') >= 2
          /\ calls'[2].ok )
        => LET c == FirstCalendar(calendars, op'.calendar_id)
               events == calendars[c].events
               after == calendars'[c].events
               x == FirstEvent(events, op'.event_id)
           IN  /\ calls'[2] = Call("search", c, TRUE)
               /\ \A k \in DOMAIN calendars : k # c => calendars'[k] = calendars[k]
               /\ IF ~HasEvent(events, op'.event_id)
                  THEN /\ result' = EventNotFound(op'.event_id, op'.calendar_id)
                       /\ calendars' = calendars
                       /\ Len(calls') = 2
                  ELSE IF op'.name = "get_event_by_id"
                  THEN /\ result' = [event |-> events[x]]
                       /\ calendars' = calendars
                       /\ Len(calls') = 2
                  ELSE /\ CountOf(calls', "delete") = 1
                       /\ calls'[3].call = "delete" /\ calls'[3].cal = c
                       /\ IF calls'[3].ok
                          THEN /\ Len(after) >= Len(events) - 1
                               /\ \A j \in 1..(Len(events) - 1) :
                                      after[j] = RemoveAt(events, x)[j]
                               /\ op'.name = "delete_event" => Len(after) = Len(events) - 1
                          ELSE calendars' = calendars ]_vars

\* delete_event has deleted one of two events of the same uid: the later one
\* is still in the calendar
C14_Witness ==
    /\ pc = "returned"
    /\ op.name = "delete_event"
    /\ "message" \in DOMAIN result
    /\ CountOf(calls, "delete") = 1
    /\ HasEvent(Listed, op.event_id)

----------------------------------------------------------------------------
(* C15 *)

WireFormat(s) == s \in {T10, T12}
Instant(s) == IF s = T10 THEN 10 ELSE 12
ParseFailure(s) == [error |-> <<"time data ", s, " does not match format">>]

RangeQuery(c, ok) ==
    [call |-> "date_search", cal |-> c, ok |-> ok,
     arg |-> [start |-> Instant(op.start_time), end |-> Instant(op.end_time)]]

\* C15: get_events_in_range on a resolved calendar parses start_time and then
\* end_time: when start_time is not in the wire format the envelope carries
\* its parse failure, when only end_time is not, that of end_time, and in both
\* cases no range query is issued; when both parse, exactly one range query is
\* issued, on that calendar and with the parsed bounds, and when it is
\* answered the envelope has the events found, count equal to their number,
\* and start_time, end_time and calendar_id as the caller gave them.
C15_RangeParsing ==
    (Resolved /\ op.name = "get_events_in_range"
              /\ HasCalendar(calendars, op.calendar_id))
    => LET c == FirstCalendar(calendars, op.calendar_id)
       IN  IF ~WireFormat(op.start_time)
           THEN result = ParseFailure(op.start_time) /\ calls = <<ListingOk>>
           ELSE IF ~WireFormat(op.end_time)
           THEN result = ParseFailure(op.end_time) /\ calls = <<ListingOk>>
           ELSE \/ /\ calls = <<ListingOk, RangeQuery(c, TRUE)>>
                   /\ DOMAIN result =
                        {"events", "count", "start_time", "end_time", "calendar_id"}
                   /\ result.count = Len(result.events)
                   /\ \A i \in DOMAIN result.events : result.events[i] \in Range(Listed)
                   /\ result.start_time = op.start_time
                   /\ result.end_time = op.end_time
                   /\ result.calendar_id = op.calendar_id
                \/ /\ calls = <<ListingOk, RangeQuery(c, FALSE)>>
                   /\ DOMAIN result = {"error"}

\* both timestamps malformed: the failure reported is that of start_time
C15_Witness ==
    /\ Resolved
    /\ op.name = "get_events_in_range"
    /\ op.start_time = "2025-01-01"
    /\ op.end_time = "invalid-date"
    /\ HasCalendar(calendars, op.calendar_id)
    /\ Listed # <<>>
    /\ result = ParseFailure("2025-01-01")
    /\ ~Issued(calls, "date_search")

----------------------------------------------------------------------------
(* C16 *)

Complete(event_data) == {"uid", "summary", "start", "end"} \subseteq DOMAIN event_data

\* the event that event_data describes, as it is handed to the calendar
Payload(event_data) ==
    [UID |-> event_data.uid,
     DTSTART |-> event_data.start,
     DTEND |-> event_data.end,
     SUMMARY |-> event_data.summary,
     LOCATION |-> IF "location" \in DOMAIN event_data THEN event_data.location ELSE <<>>,
     DESCRIPTION |-> IF "description" \in DOMAIN event_data
                     THEN event_data.description ELSE <<>>]

Submission(c, ok) ==
    [call |-> "add_event", cal |-> c, ok |-> ok, arg |-> Payload(op.event_data)]

\* C16: create_event on a resolved calendar with all of uid, summary, start and
\* end in event_data makes no call on any calendar but at most one add_event,
\* on the resolved calendar and with the event that event_data describes; when
\* no call raises it has made exactly that one submission, the event is the
\* last of that calendar, and the envelope is {"event": event_data} with the
\* caller's event_data; nothing is read back from the service.
C16_CreateSubmitsOnce ==
    (Resolved /\ op.name = "create_event"
              /\ HasCalendar(calendars, op.calendar_id)
              /\ Complete(op.event_data))
    => LET c == FirstCalendar(calendars, op.calendar_id)
       IN  /\ \A j \in DOMAIN calls : OnCalendar(calls[j]) =>
                  calls[j] \in {Submission(c, TRUE), Submission(c, FALSE)}
           /\ CountOf(calls, "add_event") <= 1
           /\ CountOf(calls, "calendars") = 1
           /\ ~SomeCallRaised(calls) =>
               /\ Len(calls) = 3
               /\ calls[3] = Submission(c, TRUE)
               /\ result = [event |-> op.event_data]
               /\ Listed # <<>>
               /\ Listed[Len(Listed)] = [icalendar_component |-> Payload(op.event_data)]

\* an event created in the second of two calendars, the first left empty
C16_Witness ==
    /\ pc = "returned"
    /\ op.name = "create_event"
    /\ "event" \in DOMAIN result
    /\ Len(calendars) = 2
    /\ FirstCalendar(calendars, op.calendar_id) = 2
    /\ calendars[1].events = <<>>
    /\ Len(calendars[2].events) = 1

----------------------------------------------------------------------------
(* C17 *)

\* url, username, password, client handle; principal handle
SessionState == <<session.url, session.username, session.password,
                  session.client, principal>>

\* C17: no step of the constructed server, be it a call that returns a result,
\* a call that returns an error envelope or the handing over of an envelope,
\* changes the session state (url, username, password, client handle,
\* principal handle).  The result of a call depends on its arguments, the
\* principal handle and the contents of the service alone, so a call made
\* after a failed call that left the service as it was returns what it would
\* have returned without the failed call.
C17_SessionUnchanged == [][SessionState' = SessionState]_vars

\* a call has failed on a service call that raised, the session as constructed
C17_Witness ==
    /\ pc = "returned"
    /\ op.name = "delete_event"
    /\ "error" \in DOMAIN result
    /\ SomeCallRaised(calls)
    /\ SessionState = <<Connected.url, Connected.username, Connected.password,
                        Connected.client, TRUE>>

----------------------------------------------------------------------------
(* C18 *)

\* C18: every event operation begins with a listing fetched from the service
\* in that call, and resolves against the listing as it is then, whatever
\* earlier calls resolved: the call reports calendar-not-found exactly when no
\* calendar of the present listing has the id (a calendar removed since is not
\* found), and every call it makes on a calendar goes to a calendar of the
\* present listing that has the id (a calendar added since is found).
C18_FreshListing ==
    [][ (IsCall /\ principal /\ op'.name \in EventOps)
        => /\ calls' # <<>>
           /\ calls'[1].call = "calendars"
           /\ calls'[1].ok =>
               /\ result' = CalendarNotFound(op'.calendar_id)
                    <=> ~HasCalendar(calendars, op'.calendar_id)
               /\ \A j \in DOMAIN calls' : OnCalendar(calls'[j]) =>
                    /\ calls'[j].cal \in DOMAIN calendars
                    /\ calendars[calls'[j].cal].id = op'.calendar_id ]_vars

\* a calendar in which an earlier call deleted an event has been removed: the
\* call reports it not found, and the other calendar is now first
C18_Witness ==
    /\ pc = "returned"
    /\ op.name \in EventOps
    /\ result = CalendarNotFound(op.calendar_id)
    /\ \E uid \in EventIds : <<op.calendar_id, uid>> \in deleted
    /\ Len(calendars) = 1

----------------------------------------------------------------------------
(* C19 *)

Parsed == pc = "returned" /\ op.name = "CalDAVClient.get_events" /\ "return" \in DOMAIN result

Upstream == calendars[1].events[1].icalendar_component

IsDigit(c) == c \in {"0", "1", "2", "3", "4", "5", "6", "7", "8", "9"}

\* the date and the time of day of the values in DateTimes, as YYYYMMDDTHHMMSS
LocalTime(dt) ==
    IF dt = Date(2023, 1, 1)
    THEN <<"2","0","2","3","0","1","0","1","T","0","0","0","0","0","0">>
    ELSE IF dt.year = 2024
    THEN <<"2","0","2","4","1","2","3","1","T","2","3","5","9","0","5">>
    ELSE IF dt.hour = 2
    THEN <<"2","0","2","3","0","1","0","1","T","0","2","3","0","0","0">>
    ELSE <<"2","0","2","3","0","1","0","1","T","1","0","0","0","0","0">>

\* a timestamp of the wire format for dt: YYYYMMDDTHHMMSS, a sign, HHMM
WireTimestamp(s, dt) ==
    /\ Len(s) = 20
    /\ SubSeq(s, 1, 15) = LocalTime(dt)
    /\ s[16] \in {"+", "-"}
    /\ \A i \in 17..20 : IsDigit(s[i])

Stringified(ical, prop) == IF prop \in DOMAIN ical THEN ical[prop] ELSE <<"N", "o", "n", "e">>

\* C19: parsing an upstream event yields, for every combination of present and
\* absent properties: uid = the stringified UID; summary = the SUMMARY text,
\* or the empty string when absent; start and end = DTSTART and DTEND as
\* YYYYMMDDTHHMMSS followed by the UTC offset, or the empty string when
\* absent; location and description = the text when present and null when
\* absent.
C19_ParsedRecord ==
    Parsed =>
        LET e == result.return[1]
            ical == Upstream
        IN  /\ Len(result.return) = 1
            /\ DOMAIN e = EventModelFields
            /\ e.uid = Stringified(ical, "UID")
            /\ e.summary = IF "SUMMARY" \in DOMAIN ical THEN ical.SUMMARY ELSE <<>>
            /\ IF "DTSTART" \in DOMAIN ical
               THEN WireTimestamp(e.start, ical.DTSTART.dt) ELSE e.start = <<>>
            /\ IF "DTEND" \in DOMAIN ical
               THEN WireTimestamp(e.end, ical.DTEND.dt) ELSE e.end = <<>>
            /\ e.location = IF "LOCATION" \in DOMAIN ical
                            THEN <<ical.LOCATION>> ELSE <<>>
            /\ e.description = IF "DESCRIPTION" \in DOMAIN ical
                               THEN <<ical.DESCRIPTION>> ELSE <<>>

----------------------------------------------------------------------------
(* C20 *)

Lacking(event_data) == {"summary", "start", "end"} \ DOMAIN event_data

FirstLacking(event_data) ==
    IF "summary" \notin DOMAIN event_data THEN "summary"
    ELSE IF "start" \notin DOMAIN event_data THEN "start"
    ELSE "end"

MissingField(f) == [error |-> <<"Missing required field: ", f>>]

\* C20: update_event validates event_data only after the delete: when the
\* calendar and the event resolve, no call raises and event_data lacks any of
\* summary, start, end, update_event has issued the listing, the search and
\* the delete, lists once more and returns {"error": "Missing required field:
\* <f>"} for the first of them that is absent, and the event is gone from the
\* calendar, nothing added in its place; no update_event whatever returns this
\* error for uid.
C20_ValidatesAfterDelete ==
    [][ (IsCall /\ principal /\ op'.name = "update_event")
        => /\ result' # MissingField("uid")
           /\ ( /\ HasCalendar(calendars, op'.calendar_id)
                /\ HasEvent(calendars[FirstCalendar(calendars, op'.calendar_id)].events,
                            op'.event_id)
                /\ Lacking(op'.event_data) # {}
                /\ ~SomeCallRaised(calls') )
              => LET c == FirstCalendar(calendars, op'.calendar_id)
                     events == calendars[c].events
                 IN  /\ calls' = <<ListingOk, Call("search", c, TRUE),
                                   Call("delete", c, TRUE), ListingOk>>
                     /\ result' = MissingField(FirstLacking(op'.event_data))
                     /\ calendars'[c].events =
                            RemoveAt(events, FirstEvent(events, op'.event_id))
                     /\ \A k \in DOMAIN calendars : k # c => calendars'[k] = calendars[k] ]_vars

\* event_data with nothing but a start: the only event of the calendar is
\* deleted and summary is reported missing
C20_Witness ==
    /\ pc = "returned"
    /\ op.name = "update_event"
    /\ DOMAIN op.event_data = {"start"}
    /\ result = MissingField("summary")
    /\ Issued(calls, "delete")
    /\ Listed = <<>>

----------------------------------------------------------------------------
(* C21 *)

ReadOps ==
    {"get_calendars", "get_events", "get_event_by_id", "get_events_in_range",
     "search_events"}

\* the calls that list or look up, and change nothing in the service
ReadCalls == {"calendars", "events", "search", "date_search"}

\* C21: a call of get_calendars, get_events, get_event_by_id,
\* get_events_in_range or search_events, whatever its arguments and whether it
\* returns a result or an error envelope, issues no add and no delete, every
\* call it makes being a listing or a lookup, and leaves the calendars of the
\* service and the events of each calendar as they were before the call.
C21_ReadsChangeNothing ==
    [][ (IsCall /\ op'.name \in ReadOps)
        => /\ calendars' = calendars
           /\ \A j \in DOMAIN calls' : calls'[j].call \in ReadCalls ]_vars

\* an event found by get_event_by_id among two of the calendar
C21_Witness ==
    /\ pc = "returned"
    /\ op.name = "get_event_by_id"
    /\ "event" \in DOMAIN result
    /\ HasCalendar(calendars, op.calendar_id)
    /\ Len(Listed) = 2
    /\ result.event \in Range(Listed)

----------------------------------------------------------------------------
(* C22: checked under SearchSpec *)

\* how many of m sorted matches a limit <= 0 leaves: none for 0, all but the
\* last -limit for a negative limit, none when there are at most -limit
KeptOf(m, limit) == IF limit = 0 THEN 0 ELSE IF m + limit > 0 THEN m + limit ELSE 0

\* C22: search_events does not validate limit: on a resolved calendar whose
\* event listing is answered, a limit of 0 or below gives a success envelope
\* and no error; with limit 0 the events list is empty and count is 0 even
\* when events match; with limit -k it holds the matches in sorted order
\* without the last k, none when at most k match; count is the number of
\* events returned.
C22_LimitNotValidated ==
    ( /\ pc = "returned"
      /\ op.name = "search_events"
      /\ op.limit <= 0
      /\ HasCalendar(calendars, op.calendar_id)
      /\ ~SomeCallRaised(calls) )
    => LET n == KeptOf(Cardinality(Matching), op.limit)
       IN  /\ DOMAIN result = {"events", "count", "query", "calendar_id"}
           /\ Len(result.events) = n
           /\ result.count = n
           /\ \A i \in Matching :
                PlaceOf(i) <= n => result.events[PlaceOf(i)] = Searched[i]

\* three matches and limit -1: the two that sort first are returned
C22_Witness ==
    /\ SearchReturned
    /\ op.limit = -1
    /\ Cardinality(Matching) = 3
    /\ Len(result.events) = 2
    /\ result.count = 2
    /\ result.events[1] # result.events[2]

====
